---- MODULE Spec2Model ----
(***************************************************************************)
(* Boop House: the motion-driven recording state machine.                  *)
(*                                                                         *)
(*   MotionDetector  (src/motion_detector.py)  settle timer                *)
(*   ClipManager     (src/clip_manager.py)     session lifecycle           *)
(*   BoopHouse       (src/boop_house.py)       driver loop and shutdown    *)
(*                                                                         *)
(* Time is a discrete wall clock counted in units of 1/UnitsPerSec second. *)
(* All time.time() / datetime.now() of one handler read the same instant:  *)
(* the handler's sleeps (time.sleep) are the only statements that take     *)
(* time.  Motion levels are counted in hundredths (0.12 is 12).            *)
(* The frame source, the recording sink that writes the artifact and the   *)
(* file system's unlink are the environment: their outcomes are inputs.    *)
(***************************************************************************)
EXTENDS Integers, Sequences, FiniteSets, TLC

\* Python's None for the optional times and paths
None == -1

\* clock resolution: units per second
UnitsPerSec == 4
\* the clock stops at MaxTime
MaxTime == 12
\* the longest time between two loop iterations or two calls
MaxStep == 2
\* the largest max_clip_duration, in seconds
MaxDurSec == 2

\* motion levels a frame can produce, in hundredths
Levels == {0, 5, 8, 12}
\* get_current_frame(): None, an empty array, or a frame with its motion
\* against the previous frame (OBSClient's capture is a placeholder that
\* returns None; the frames are those its contract Optional[np.ndarray] admits)
NoFrame == -1
EmptyFrame == -2
Frames == {NoFrame, EmptyFrame} \cup Levels

\* Config: the configuration surface (thresholds in hundredths, durations
\* in clock units; the clip durations are whole seconds), with ups, the
\* number of clock units per second the run is observed at
SettleDurations == {0, 2}
Configs ==
  { c \in [high : {12}, low : {5}, settle_duration : SettleDurations,
           min_duration : { n * UnitsPerSec : n \in 0..MaxDurSec },
           max_duration : { n * UnitsPerSec : n \in 0..MaxDurSec },
           ups : {UnitsPerSec}] :
       c.min_duration < c.max_duration }

VARIABLES
  cfg,        \* Config
  now,        \* the wall clock
  md,         \* MotionDetector: settle_start_time, is_settled_state, has_prev
  cm,         \* ClipManager: current_clip_path, recording_start_time, is_recording
  files,      \* the artifacts that exist in output_dir, by path
  app,        \* BoopHouse: is_recording, running
  connected,  \* OBSClient.connected
  pc,         \* "loop", "finally" (an exception or SystemExit is unwinding), "exited"
  acts,       \* what the last step did: the calls on the session manager and the frame source
  tick,       \* the last loop iteration: kind, level, the two is_recording flags before it
  teardowns,  \* how often the body of stop() ran
  signalled,  \* a shutdown signal was delivered
  runFirst,   \* time of the first update of the current unbroken run below low_threshold
  lastUpd,    \* time of the latest settle-timer update
  lastLevel,  \* level of the latest settle-timer update
  fresh,      \* what the detector's baseline comes from: "constructed", "reset", "fed"
  issued,     \* paths allocated to earlier sessions
  handle,     \* the path the latest successful start_clip returned
  collided,   \* a session got the path of an earlier one
  reported,   \* the latest session was reported, as a record or as a discard
  rereported  \* some session was reported more than once

vars == <<cfg, now, md, cm, files, app, connected, pc, acts, tick, teardowns,
          signalled, runFirst, lastUpd, lastLevel, fresh, issued, handle, collided,
                 reported, rereported>>

\* time.sleep(0.5) in stop_clip, in clock units
FinalizeWait == cfg.ups \div 2

----------------------------------------------------------------------------
(* MotionDetector *)

\* the update with a bug: motion clears the timer but leaves the settled flag
_update_settle_timer_keeps_flag(m, motion_level, t, c) ==
  IF motion_level < c.low
    THEN LET st == IF m.settle_start_time = None THEN t ELSE m.settle_start_time
             elapsed == t - st
         IN [m EXCEPT !.settle_start_time = st,
                      !.is_settled_state = IF elapsed >= c.settle_duration THEN TRUE ELSE @]
    ELSE [m EXCEPT !.settle_start_time = None]

\* the update with a bug: motion clears the settled flag but leaves the timer
_update_settle_timer_keeps_start(m, motion_level, t, c) ==
  IF motion_level < c.low
    THEN LET st == IF m.settle_start_time = None THEN t ELSE m.settle_start_time
             elapsed == t - st
         IN [m EXCEPT !.settle_start_time = st,
                      !.is_settled_state = IF elapsed >= c.settle_duration THEN TRUE ELSE @]
    ELSE [m EXCEPT !.is_settled_state = FALSE]

\* the update with a bug: the run has to be longer than settle_duration
_update_settle_timer_strict(m, motion_level, t, c) ==
  IF motion_level < c.low
    THEN LET st == IF m.settle_start_time = None THEN t ELSE m.settle_start_time
             elapsed == t - st
         IN [m EXCEPT !.settle_start_time = st,
                      !.is_settled_state = IF elapsed > c.settle_duration THEN TRUE ELSE @]
    ELSE [m EXCEPT !.settle_start_time = None, !.is_settled_state = FALSE]

_update_settle_timer(m, motion_level, t, c) ==
  IF motion_level < c.low
    THEN LET st == IF m.settle_start_time = None THEN t ELSE m.settle_start_time
             elapsed == t - st
         IN [m EXCEPT !.settle_start_time = st,
                      !.is_settled_state = IF elapsed >= c.settle_duration THEN TRUE ELSE @]
    ELSE [m EXCEPT !.settle_start_time = None, !.is_settled_state = FALSE]

\* reset_settle_timer with a bug: the flag is left as it was
reset_settle_timer_keeps_flag(m) ==
  [m EXCEPT !.settle_start_time = None]

reset_settle_timer(m) ==
  [m EXCEPT !.settle_start_time = None, !.is_settled_state = FALSE]

\* reset with a bug: the baseline is kept
reset_keeps_baseline(m) ==
  [m EXCEPT !.settle_start_time = None, !.is_settled_state = FALSE]

\* reset(): no previous frame, a new background subtractor, the timer cleared
reset(m) ==
  [settle_start_time |-> None, is_settled_state |-> FALSE, has_prev |-> FALSE]

is_settled(m) == m.is_settled_state

\* min(1.0, max(0.0, combined_motion))
Clamp(x) == IF x < 0 THEN 0 ELSE IF x > 100 THEN 100 ELSE x

\* analyze_frame with a bug: an empty frame is fed to the settle timer as 0.0
analyze_frame_empty_updates(m, frame, t, c) ==
  IF frame = NoFrame \/ frame = EmptyFrame
    THEN [md |-> _update_settle_timer(m, 0, t, c), level |-> 0,
          updated |-> FALSE, combined |-> 0]
    ELSE LET combined_motion == IF m.has_prev THEN frame ELSE 0
             m1 == [m EXCEPT !.has_prev = TRUE]
         IN [md |-> _update_settle_timer(m1, combined_motion, t, c),
             level |-> Clamp(combined_motion),
             updated |-> TRUE, combined |-> combined_motion]

\* the result is the detector after the call and the returned level
analyze_frame(m, frame, t, c) ==
  IF frame = NoFrame \/ frame = EmptyFrame
    THEN [md |-> m, level |-> 0, updated |-> FALSE, combined |-> 0]
    ELSE LET combined_motion == IF m.has_prev THEN frame ELSE 0
             m1 == [m EXCEPT !.has_prev = TRUE]
         IN [md |-> _update_settle_timer(m1, combined_motion, t, c),
             level |-> Clamp(combined_motion),
             updated |-> TRUE, combined |-> combined_motion]

----------------------------------------------------------------------------
(* ClipManager *)

\* datetime.now().strftime("%Y%m%d_%H%M%S"): the clock cut to whole seconds;
\* the path is output_dir / boop_house_<timestamp>.<format>
Timestamp(t) == t \div cfg.ups

_reset_recording(c) ==
  [current_clip_path |-> None, recording_start_time |-> None, is_recording |-> FALSE]

\* start_clip with a bug: no check of is_recording
start_clip_unguarded(c, t) ==
  [cm |-> [current_clip_path |-> Timestamp(t),
           recording_start_time |-> t,
           is_recording |-> TRUE],
   ret |-> Timestamp(t)]

\* ret is the returned path, or None
start_clip(c, t) ==
  IF c.is_recording
    THEN [cm |-> c, ret |-> None]
    ELSE [cm |-> [current_clip_path |-> Timestamp(t),
                  recording_start_time |-> t,
                  is_recording |-> TRUE],
          ret |-> Timestamp(t)]

\* a return value; unlinkFailed: Path.unlink() raised during the call
NoRet == [kind |-> "none", path |-> None, duration |-> None, unlinkFailed |-> FALSE]

\* stop_clip with a bug: the boundary duration = min_duration is discarded
stop_clip_strict(c, fs, t, conf, unlinkFails) ==
  IF ~c.is_recording \/ c.current_clip_path = None
    THEN [cm |-> c, files |-> fs, ret |-> NoRet, slept |-> 0]
    ELSE LET duration == t - c.recording_start_time
         IN IF duration <= conf.min_duration
              THEN IF c.current_clip_path \in fs /\ unlinkFails
                     THEN [cm |-> c, files |-> fs,
                           ret |-> [NoRet EXCEPT !.kind = "raised", !.unlinkFailed = TRUE],
                           slept |-> 0]
                     ELSE [cm |-> _reset_recording(c),
                           files |-> fs \ {c.current_clip_path},
                           ret |-> NoRet, slept |-> 0]
              ELSE [cm |-> _reset_recording(c), files |-> fs,
                    ret |-> [NoRet EXCEPT !.kind = "clip",
                                          !.path = c.current_clip_path,
                                          !.duration = duration],
                    slept |-> FinalizeWait]

\* stop_clip with a bug: no check for an active session, so that
\* time.time() - None raises when there is none
stop_clip_unguarded(c, fs, t, conf, unlinkFails) ==
  IF ~c.is_recording \/ c.current_clip_path = None
    THEN [cm |-> c, files |-> fs, ret |-> [NoRet EXCEPT !.kind = "raised"], slept |-> 0]
    ELSE LET duration == t - c.recording_start_time
         IN IF duration < conf.min_duration
              THEN IF c.current_clip_path \in fs /\ unlinkFails
                     THEN [cm |-> c, files |-> fs,
                           ret |-> [NoRet EXCEPT !.kind = "raised", !.unlinkFailed = TRUE],
                           slept |-> 0]
                     ELSE [cm |-> _reset_recording(c),
                           files |-> fs \ {c.current_clip_path},
                           ret |-> NoRet, slept |-> 0]
              ELSE [cm |-> _reset_recording(c), files |-> fs,
                    ret |-> [NoRet EXCEPT !.kind = "clip",
                                          !.path = c.current_clip_path,
                                          !.duration = duration],
                    slept |-> FinalizeWait]

\* unlinkFails: the outcome of Path.unlink() when the artifact exists.
\* The result is the manager and the files after the call, the return value
\* (kind "clip": a clip_info; "none": None; "raised": the OSError of unlink
\* leaves the call) and the time the call slept.
stop_clip(c, fs, t, conf, unlinkFails) ==
  IF ~c.is_recording \/ c.current_clip_path = None
    THEN [cm |-> c, files |-> fs, ret |-> NoRet, slept |-> 0]
    ELSE LET duration == t - c.recording_start_time
         IN IF duration < conf.min_duration
              THEN IF c.current_clip_path \in fs /\ unlinkFails
                     THEN [cm |-> c, files |-> fs,
                           ret |-> [NoRet EXCEPT !.kind = "raised", !.unlinkFailed = TRUE],
                           slept |-> 0]
                     ELSE [cm |-> _reset_recording(c),
                           files |-> fs \ {c.current_clip_path},
                           ret |-> NoRet, slept |-> 0]
              ELSE [cm |-> _reset_recording(c), files |-> fs,
                    ret |-> [NoRet EXCEPT !.kind = "clip",
                                          !.path = c.current_clip_path,
                                          !.duration = duration],
                    slept |-> FinalizeWait]

\* should_stop_recording with a bug: the boundary is not over the maximum
should_stop_recording_strict(c, t, conf) ==
  IF ~c.is_recording THEN FALSE
  ELSE t - c.recording_start_time > conf.max_duration

should_stop_recording(c, t, conf) ==
  IF ~c.is_recording THEN FALSE
  ELSE t - c.recording_start_time >= conf.max_duration

----------------------------------------------------------------------------
(* What a step did, for the properties: one record per call *)

Event(op, t, pre, post, ret, fs) ==
  [op |-> op, at |-> t, pre |-> pre, post |-> post, ret |-> ret,
   left |-> (pre.current_clip_path \in fs)]

----------------------------------------------------------------------------
(* BoopHouse.  The handlers work on w, the program state during a step:    *)
(* the objects, the clock, the calls made so far and whether an exception  *)
(* is leaving the handler.                                                 *)

World ==
  [md |-> md, cm |-> cm, files |-> files, app |-> app, connected |-> connected,
   now |-> now, acts |-> <<>>, raised |-> FALSE, teardowns |-> teardowns]

_start_recording(w) ==
  IF w.app.is_recording THEN w
  ELSE LET r == start_clip(w.cm, w.now)
           ret == IF r.ret = None THEN NoRet
                  ELSE [NoRet EXCEPT !.kind = "path", !.path = r.ret]
       IN [w EXCEPT !.cm = r.cm,
                    !.acts = Append(@, Event("start", w.now, w.cm, r.cm, ret, w.files)),
                    !.app.is_recording = IF r.ret # None THEN TRUE ELSE @]

\* _stop_recording with a bug: the flag is cleared only when a clip was saved
_stop_recording_flag_in_if(w, unlinkFails, conf) ==
  IF ~w.app.is_recording THEN w
  ELSE LET r == stop_clip(w.cm, w.files, w.now, conf, unlinkFails)
           ev == Event("stop", w.now, w.cm, r.cm, r.ret, r.files)
       IN IF r.ret.kind = "raised"
            THEN [w EXCEPT !.acts = Append(@, ev), !.raised = TRUE]
            ELSE [w EXCEPT !.cm = r.cm, !.files = r.files,
                           !.now = @ + r.slept,
                           !.acts = Append(@, ev),
                           !.app.is_recording = IF r.ret.kind = "clip" THEN FALSE ELSE @]

_stop_recording(w, unlinkFails, conf) ==
  IF ~w.app.is_recording THEN w
  ELSE LET r == stop_clip(w.cm, w.files, w.now, conf, unlinkFails)
           ev == Event("stop", w.now, w.cm, r.cm, r.ret, r.files)
       IN IF r.ret.kind = "raised"
            THEN [w EXCEPT !.acts = Append(@, ev), !.raised = TRUE]
            ELSE [w EXCEPT !.cm = r.cm, !.files = r.files,
                           !.now = @ + r.slept,
                           !.acts = Append(@, ev),
                           !.app.is_recording = FALSE]

\* the iteration with a bug: the maximum is checked only when motion is high
monitor_iteration_max_in_else(w, frame, unlinkFails, conf) ==
  IF frame = NoFrame THEN w
  ELSE
    LET a == analyze_frame(w.md, frame, w.now, conf)
        motion_level == a.level
        w1 == [w EXCEPT !.md = a.md]
    IN IF ~w1.app.is_recording /\ motion_level >= conf.high
         THEN _start_recording(w1)
         ELSE IF w1.app.is_recording
           THEN IF motion_level < conf.low
                  THEN IF is_settled(w1.md)
                         THEN _stop_recording(w1, unlinkFails, conf)
                         ELSE w1
                  ELSE LET w2 == [w1 EXCEPT !.md = reset_settle_timer(@)]
                       IN IF should_stop_recording(w2.cm, w2.now, conf)
                            THEN _stop_recording(w2, unlinkFails, conf)
                            ELSE w2
           ELSE w1

\* the iteration with a bug: the session starts at low_threshold
monitor_iteration_low_start(w, frame, unlinkFails, conf) ==
  IF frame = NoFrame THEN w
  ELSE
    LET a == analyze_frame(w.md, frame, w.now, conf)
        motion_level == a.level
        w1 == [w EXCEPT !.md = a.md]
    IN IF ~w1.app.is_recording /\ motion_level >= conf.low
         THEN _start_recording(w1)
         ELSE IF w1.app.is_recording
           THEN LET w2 == IF motion_level < conf.low
                            THEN IF is_settled(w1.md)
                                   THEN _stop_recording(w1, unlinkFails, conf)
                                   ELSE w1
                            ELSE [w1 EXCEPT !.md = reset_settle_timer(@)]
                IN IF w2.raised THEN w2
                   ELSE IF should_stop_recording(w2.cm, w2.now, conf)
                          THEN _stop_recording(w2, unlinkFails, conf)
                          ELSE w2
           ELSE w1

\* the iteration with a bug: the motion branch stops without asking is_settled
monitor_iteration_no_settle(w, frame, unlinkFails, conf) ==
  IF frame = NoFrame THEN w
  ELSE
    LET a == analyze_frame(w.md, frame, w.now, conf)
        motion_level == a.level
        w1 == [w EXCEPT !.md = a.md]
    IN IF ~w1.app.is_recording /\ motion_level >= conf.high
         THEN _start_recording(w1)
         ELSE IF w1.app.is_recording
           THEN LET w2 == IF motion_level < conf.low
                            THEN _stop_recording(w1, unlinkFails, conf)
                            ELSE [w1 EXCEPT !.md = reset_settle_timer(@)]
                IN IF w2.raised THEN w2
                   ELSE IF should_stop_recording(w2.cm, w2.now, conf)
                          THEN _stop_recording(w2, unlinkFails, conf)
                          ELSE w2
           ELSE w1

\* the iteration with a bug: max_duration is enforced without a frame too
monitor_iteration_idle_checks_max(w, frame, unlinkFails, conf) ==
  IF frame = NoFrame
    THEN IF should_stop_recording(w.cm, w.now, conf)
           THEN _stop_recording(w, unlinkFails, conf)
           ELSE w
  ELSE
    LET a == analyze_frame(w.md, frame, w.now, conf)
        motion_level == a.level
        w1 == [w EXCEPT !.md = a.md]
    IN IF ~w1.app.is_recording /\ motion_level >= conf.high
         THEN _start_recording(w1)
         ELSE IF w1.app.is_recording
           THEN LET w2 == IF motion_level < conf.low
                            THEN IF is_settled(w1.md)
                                   THEN _stop_recording(w1, unlinkFails, conf)
                                   ELSE w1
                            ELSE [w1 EXCEPT !.md = reset_settle_timer(@)]
                IN IF w2.raised THEN w2
                   ELSE IF should_stop_recording(w2.cm, w2.now, conf)
                          THEN _stop_recording(w2, unlinkFails, conf)
                          ELSE w2
           ELSE w1

\* the iteration with a bug: the start check comes after the stop checks, so
\* a session force-stopped on a frame >= high_threshold is followed by a start
monitor_iteration_start_last(w, frame, unlinkFails, conf) ==
  IF frame = NoFrame THEN w
  ELSE
    LET a == analyze_frame(w.md, frame, w.now, conf)
        motion_level == a.level
        w1 == [w EXCEPT !.md = a.md]
        w3 == IF w1.app.is_recording
                THEN LET w2 == IF motion_level < conf.low
                                 THEN IF is_settled(w1.md)
                                        THEN _stop_recording(w1, unlinkFails, conf)
                                        ELSE w1
                                 ELSE [w1 EXCEPT !.md = reset_settle_timer(@)]
                     IN IF w2.raised THEN w2
                        ELSE IF should_stop_recording(w2.cm, w2.now, conf)
                               THEN _stop_recording(w2, unlinkFails, conf)
                               ELSE w2
                ELSE w1
    IN IF ~w3.raised /\ ~w3.app.is_recording /\ motion_level >= conf.high
         THEN _start_recording(w3)
         ELSE w3

\* one iteration of the while loop of _monitor_loop
monitor_iteration(w, frame, unlinkFails, conf) ==
  IF frame = NoFrame THEN w
  ELSE
    LET a == analyze_frame(w.md, frame, w.now, conf)
        motion_level == a.level
        w1 == [w EXCEPT !.md = a.md]
    IN IF ~w1.app.is_recording /\ motion_level >= conf.high
         THEN _start_recording(w1)
         ELSE IF w1.app.is_recording
           THEN LET w2 == IF motion_level < conf.low
                            THEN IF is_settled(w1.md)
                                   THEN _stop_recording(w1, unlinkFails, conf)
                                   ELSE w1
                            ELSE [w1 EXCEPT !.md = reset_settle_timer(@)]
                IN IF w2.raised THEN w2
                   ELSE IF should_stop_recording(w2.cm, w2.now, conf)
                          THEN _stop_recording(w2, unlinkFails, conf)
                          ELSE w2
           ELSE w1

\* OBSClient.disconnect
disconnect(w) ==
  [w EXCEPT !.connected = FALSE,
            !.acts = Append(@, Event("disconnect", w.now, w.cm, w.cm, NoRet, w.files))]

stop(w, unlinkFails, conf) ==
  IF ~w.app.running THEN w
  ELSE LET w1 == [w EXCEPT !.app.running = FALSE, !.teardowns = @ + 1]
           w2 == IF w1.app.is_recording
                   THEN _stop_recording(w1, unlinkFails, conf)
                   ELSE w1
       IN IF w2.raised THEN w2 ELSE disconnect(w2)

\* stop(), then sys.exit(0): SystemExit, or the exception that left stop(),
\* unwinds the interrupted loop
_signal_handler(w, unlinkFails, conf) == stop(w, unlinkFails, conf)

----------------------------------------------------------------------------
(* Bookkeeping for the properties *)

NoTick == [kind |-> "none", level |-> 0, was |-> FALSE, active |-> FALSE]

StartedPaths(a) ==
  { a[i].ret.path : i \in { j \in DOMAIN a : a[j].op = "start" /\ a[j].ret.kind = "path" } }

\* which sessions the calls of a reported: start_clip opens a session that is
\* not reported yet; stop_clip on an Active session reports it, as a discard
\* by the message of its short branch (printed before the delete, so also
\* when the delete raises) or as the record it returns
RECURSIVE ReportsAfter(_, _)
ReportsAfter(a, r) ==
  IF a = <<>> THEN r
  ELSE LET e == Head(a)
           r1 == IF e.op = "start" /\ e.ret.kind = "path"
                   THEN [r EXCEPT !.once = FALSE]
                 ELSE IF e.op = "stop" /\ e.pre.is_recording
                          /\ e.pre.current_clip_path # None
                   THEN [once |-> TRUE, again |-> r.again \/ r.once]
                 ELSE r
       IN ReportsAfter(Tail(a), r1)

\* the state after a handler ran from World to w
Commit(w) ==
  /\ md' = w.md
  /\ cm' = w.cm
  /\ files' = w.files
  /\ app' = w.app
  /\ connected' = w.connected
  /\ now' = w.now
  /\ acts' = w.acts
  /\ teardowns' = w.teardowns
  /\ issued' = issued \cup StartedPaths(w.acts)
  /\ handle' = IF StartedPaths(w.acts) = {} THEN handle
                ELSE CHOOSE p \in StartedPaths(w.acts) : TRUE
  /\ collided' = (collided \/ StartedPaths(w.acts) \cap issued # {})
  /\ reported' = ReportsAfter(w.acts, [once |-> reported, again |-> rereported]).once
  /\ rereported' = ReportsAfter(w.acts, [once |-> reported, again |-> rereported]).again

\* the program after construction and initialize(), self.running = True
Constructed ==
  /\ now = 0
  /\ md = [settle_start_time |-> None, is_settled_state |-> FALSE, has_prev |-> FALSE]
  /\ cm = [current_clip_path |-> None, recording_start_time |-> None, is_recording |-> FALSE]
  /\ files = {}
  /\ app = [is_recording |-> FALSE, running |-> TRUE]
  /\ connected = TRUE
  /\ pc = "loop"
  /\ acts = <<>>
  /\ tick = NoTick
  /\ teardowns = 0
  /\ signalled = FALSE
  /\ runFirst = None
  /\ lastUpd = None
  /\ lastLevel = None
  /\ fresh = "constructed"
  /\ issued = {}
  /\ handle = None
  /\ collided = FALSE
  /\ reported = FALSE
  /\ rereported = FALSE

Init == cfg \in Configs /\ Constructed

----------------------------------------------------------------------------
(* The driver: start() from self.running = True on *)

\* the loop iteration that reads the clock at t and gets frame
Iterate(t, frame, unlinkFails) ==
  LET a == analyze_frame(md, frame, t, cfg)
      w == monitor_iteration([World EXCEPT !.now = t], frame, unlinkFails, cfg)
  IN /\ Commit(w)
     /\ pc' = IF w.raised THEN "finally" ELSE "loop"
     /\ tick' = [kind |-> IF frame = NoFrame THEN "idle" ELSE "frame",
                 level |-> a.level, was |-> app.is_recording,
                 active |-> cm.is_recording]
     /\ lastUpd' = IF a.updated THEN t ELSE lastUpd
     /\ lastLevel' = IF a.updated THEN a.combined ELSE lastLevel
     /\ fresh' = IF a.updated THEN "fed" ELSE fresh
     /\ runFirst' = IF ~a.updated THEN runFirst
                    ELSE IF a.combined >= cfg.low THEN None
                    ELSE IF runFirst = None THEN t ELSE runFirst

\* one loop iteration, after the sleep that ended the one before
Tick ==
  /\ pc = "loop"
  /\ app.running
  /\ \E d \in 1..MaxStep, frame \in Frames, unlinkFails \in BOOLEAN :
       /\ now + d + FinalizeWait <= MaxTime
       /\ Iterate(now + d, frame, unlinkFails)
  /\ UNCHANGED <<cfg, signalled>>

\* SIGINT / SIGTERM between two iterations
Signal ==
  /\ pc = "loop"
  /\ \E d \in 0..MaxStep, unlinkFails \in BOOLEAN :
       /\ now + d + FinalizeWait <= MaxTime
       /\ Commit(_signal_handler([World EXCEPT !.now = now + d], unlinkFails, cfg))
  /\ pc' = "finally"
  /\ signalled' = TRUE
  /\ tick' = NoTick
  /\ UNCHANGED <<cfg, runFirst, lastUpd, lastLevel, fresh>>

\* the finally block of start()
Finally ==
  /\ pc = "finally"
  /\ \E unlinkFails \in BOOLEAN : Commit(stop(World, unlinkFails, cfg))
  /\ pc' = "exited"
  /\ tick' = NoTick
  /\ UNCHANGED <<cfg, signalled, runFirst, lastUpd, lastLevel, fresh>>

\* the recording sink writes the artifact of the active session
RecorderWrites ==
  /\ cm.is_recording
  /\ cm.current_clip_path \notin files
  /\ files' = files \cup {cm.current_clip_path}
  /\ acts' = <<>>
  /\ tick' = NoTick
  /\ UNCHANGED <<cfg, now, md, cm, app, connected, pc, teardowns, signalled,
                 runFirst, lastUpd, lastLevel, fresh, issued, handle, collided,
                 reported, rereported>>

Next == Tick \/ Signal \/ Finally \/ RecorderWrites

Spec == Init /\ [][Next]_vars

----------------------------------------------------------------------------
(* The session manager on its own: any sequence of calls *)

CallStartClip ==
  /\ \E d \in 0..MaxStep :
       /\ now + d + FinalizeWait <= MaxTime
       /\ LET t == now + d
              r == start_clip(cm, t)
              ret == IF r.ret = None THEN NoRet
                     ELSE [NoRet EXCEPT !.kind = "path", !.path = r.ret]
          IN Commit([World EXCEPT !.now = t, !.cm = r.cm,
                                  !.acts = <<Event("start", t, cm, r.cm, ret, files)>>])
  /\ tick' = NoTick
  /\ UNCHANGED <<cfg, pc, signalled, runFirst, lastUpd, lastLevel, fresh>>

CallStopClip ==
  /\ \E d \in 0..MaxStep, unlinkFails \in BOOLEAN :
       /\ now + d + FinalizeWait <= MaxTime
       /\ LET t == now + d
              r == stop_clip(cm, files, t, cfg, unlinkFails)
          IN Commit([World EXCEPT !.now = t + r.slept, !.cm = r.cm, !.files = r.files,
                                  !.acts = <<Event("stop", t, cm, r.cm, r.ret, r.files)>>])
  /\ tick' = NoTick
  /\ UNCHANGED <<cfg, pc, signalled, runFirst, lastUpd, lastLevel, fresh>>

CallShouldStop ==
  /\ \E d \in 0..MaxStep :
       /\ now + d + FinalizeWait <= MaxTime
       /\ LET t == now + d
              b == should_stop_recording(cm, t, cfg)
              ret == [NoRet EXCEPT !.kind = IF b THEN "true" ELSE "false"]
          IN Commit([World EXCEPT !.now = t,
                                  !.acts = <<Event("should_stop", t, cm, cm, ret, files)>>])
  /\ tick' = NoTick
  /\ UNCHANGED <<cfg, pc, signalled, runFirst, lastUpd, lastLevel, fresh>>

NextCM == CallStartClip \/ CallStopClip \/ CallShouldStop \/ RecorderWrites

SpecCM == Init /\ [][NextCM]_vars

----------------------------------------------------------------------------
(* The session API at both levels: the manager's calls and the driver's    *)
(* _start_recording / _stop_recording, in any order                        *)

CallStartRecording ==
  /\ \E d \in 0..MaxStep :
       /\ now + d + FinalizeWait <= MaxTime
       /\ Commit(_start_recording([World EXCEPT !.now = now + d]))
  /\ tick' = [NoTick EXCEPT !.kind = "_start_recording",
                            !.was = app.is_recording, !.active = cm.is_recording]
  /\ UNCHANGED <<cfg, pc, signalled, runFirst, lastUpd, lastLevel, fresh>>

CallStopRecording ==
  /\ \E d \in 0..MaxStep, unlinkFails \in BOOLEAN :
       /\ now + d + FinalizeWait <= MaxTime
       /\ Commit(_stop_recording([World EXCEPT !.now = now + d], unlinkFails, cfg))
  /\ tick' = [NoTick EXCEPT !.kind = "_stop_recording",
                            !.was = app.is_recording, !.active = cm.is_recording]
  /\ UNCHANGED <<cfg, pc, signalled, runFirst, lastUpd, lastLevel, fresh>>

NextAPI ==
  \/ CallStartClip \/ CallStopClip \/ CallShouldStop
  \/ CallStartRecording \/ CallStopRecording
  \/ RecorderWrites

SpecAPI == Init /\ [][NextAPI]_vars

----------------------------------------------------------------------------
(* The motion detector on its own: any sequence of calls *)

\* what a call on the detector did; was: where the baseline came from
MdEvent(op, t, frame, pre, post, level) ==
  [op |-> op, at |-> t, frame |-> frame, pre |-> pre, post |-> post,
   level |-> level, was |-> fresh]

CallAnalyzeFrame ==
  /\ \E d \in 0..MaxStep, frame \in Frames :
       /\ now + d <= MaxTime
       /\ LET t == now + d
              a == analyze_frame(md, frame, t, cfg)
          IN /\ md' = a.md
             /\ now' = t
             /\ acts' = <<MdEvent("analyze", t, frame, md, a.md, a.level)>>
             /\ lastUpd' = IF a.updated THEN t ELSE lastUpd
             /\ lastLevel' = IF a.updated THEN a.combined ELSE lastLevel
             /\ fresh' = IF a.updated THEN "fed" ELSE fresh
             /\ runFirst' = IF ~a.updated THEN runFirst
                            ELSE IF a.combined >= cfg.low THEN None
                            ELSE IF runFirst = None THEN t ELSE runFirst
  /\ tick' = NoTick
  /\ UNCHANGED <<cfg, cm, files, app, connected, pc, teardowns, signalled,
                 issued, handle, collided,
                 reported, rereported>>

CallResetSettleTimer ==
  /\ md' = reset_settle_timer(md)
  /\ acts' = <<MdEvent("reset_settle_timer", now, NoFrame, md, md', 0)>>
  /\ tick' = NoTick
  /\ UNCHANGED <<cfg, now, cm, files, app, connected, pc, teardowns, signalled,
                 runFirst, lastUpd, lastLevel, fresh, issued, handle, collided,
                 reported, rereported>>

CallReset ==
  /\ md' = reset(md)
  /\ acts' = <<MdEvent("reset", now, NoFrame, md, md', 0)>>
  /\ fresh' = "reset"
  /\ tick' = NoTick
  /\ UNCHANGED <<cfg, now, cm, files, app, connected, pc, teardowns, signalled,
                 runFirst, lastUpd, lastLevel, issued, handle, collided,
                 reported, rereported>>

NextMD == CallAnalyzeFrame \/ CallResetSettleTimer \/ CallReset

SpecMD == Init /\ [][NextMD]_vars

----------------------------------------------------------------------------
(* Config.validate on its own: thresholds in hundredths, durations in seconds *)

\* validate with a bug: low_threshold = high_threshold is accepted
validate_loose(c) ==
  LET e1 == IF ~(0 < c.motion_low_threshold
                 /\ c.motion_low_threshold <= c.motion_high_threshold
                 /\ c.motion_high_threshold <= 100)
              THEN <<"Motion thresholds must be: 0 < low < high <= 1">> ELSE <<>>
      e2 == IF c.min_clip_duration >= c.max_clip_duration
              THEN <<"min_clip_duration must be less than max_clip_duration">> ELSE <<>>
      e3 == IF c.motion_sample_rate <= 0
              THEN <<"motion_sample_rate must be positive">> ELSE <<>>
      e4 == IF c.frame_skip < 1
              THEN <<"frame_skip must be at least 1">> ELSE <<>>
  IN e1 \o e2 \o e3 \o e4

\* the list of errors
validate(c) ==
  LET e1 == IF ~(0 < c.motion_low_threshold
                 /\ c.motion_low_threshold < c.motion_high_threshold
                 /\ c.motion_high_threshold <= 100)
              THEN <<"Motion thresholds must be: 0 < low < high <= 1">> ELSE <<>>
      e2 == IF c.min_clip_duration >= c.max_clip_duration
              THEN <<"min_clip_duration must be less than max_clip_duration">> ELSE <<>>
      e3 == IF c.motion_sample_rate <= 0
              THEN <<"motion_sample_rate must be positive">> ELSE <<>>
      e4 == IF c.frame_skip < 1
              THEN <<"frame_skip must be at least 1">> ELSE <<>>
  IN e1 \o e2 \o e3 \o e4

\* the values the environment can set
EnvConfigs ==
  [motion_low_threshold : {-5, 0, 5, 12},
   motion_high_threshold : {5, 12, 100, 101},
   min_clip_duration : 0..MaxDurSec,
   max_clip_duration : 0..MaxDurSec,
   motion_sample_rate : {-1, 0, 30},
   frame_skip : {0, 1}]

CallValidate ==
  /\ \E c \in EnvConfigs :
       acts' = <<[op |-> "validate", conf |-> c, errors |-> validate(c)]>>
  /\ tick' = NoTick
  /\ UNCHANGED <<cfg, now, md, cm, files, app, connected, pc, teardowns, signalled,
                 runFirst, lastUpd, lastLevel, fresh, issued, handle, collided,
                 reported, rereported>>

NextV == CallValidate

SpecV == Init /\ [][NextV]_vars

----------------------------------------------------------------------------
(* End-to-end scenario A: a tenth of a second per clock unit, one loop      *)
(* iteration per clock unit, the levels 0, 0, 0.2, 0.2, 0.2 and then 0.02.  *)
(* The clip durations are not part of the scenario.                         *)

\* the scenario is followed for ScenarioLast iterations
ScenarioLast == 27

ScenarioLevels == <<0, 0, 20, 20, 20>>
ScenarioLevel(k) == IF k <= Len(ScenarioLevels) THEN ScenarioLevels[k] ELSE 2
\* the 25 ticks of the scenario: 20 of them below low_threshold
ScenarioTicks == Len(ScenarioLevels) + 20

ScenarioConfigs ==
  { [high |-> 12, low |-> 5, settle_duration |-> 20,
     min_duration |-> mn * 10, max_duration |-> mx * 10, ups |-> 10] :
       mn \in {0, 2, 5}, mx \in {6, 60} }

InitA == cfg \in ScenarioConfigs /\ Constructed

TickA ==
  /\ pc = "loop"
  /\ app.running
  /\ now + 1 <= ScenarioLast
  /\ \E unlinkFails \in BOOLEAN : Iterate(now + 1, ScenarioLevel(now + 1), unlinkFails)
  /\ UNCHANGED <<cfg, signalled>>

NextA == TickA \/ RecorderWrites

SpecA == InitA /\ [][NextA]_vars

----------------------------------------------------------------------------
(* The driver with signal delivery between statements.  Python runs the    *)
(* handler between two bytecodes of the main thread, so _signal_handler    *)
(* can run wherever the iteration stands; sys.exit(0) then unwinds the     *)
(* interrupted statement, whose rest never runs.  pc names where the       *)
(* iteration stands inside start_clip and stop_clip:                       *)
(*   "start_clip_path"   current_clip_path, recording_start_time assigned  *)
(*   "start_clip_done"   is_recording assigned, the driver's flag not yet  *)
(*   "discard_printed"   the short branch printed its message              *)
(*   "discard_unlinked"  the artifact is deleted                           *)
(*   "finalizing"        in time.sleep(0.5)                                *)
(*   "discard_resetting", "commit_resetting"                               *)
(*                       _reset_recording cleared current_clip_path        *)
(*   "stop_clip_done"    stop_clip returned, the driver's flag not yet     *)
(*                       cleared                                           *)
(* The delete succeeds in this specification.                              *)

InIteration ==
  {"loop", "start_clip_path", "start_clip_done", "discard_printed",
   "discard_unlinked", "finalizing", "discard_resetting", "commit_resetting",
   "stop_clip_done"}

\* a step inside start_clip or stop_clip that leaves the detector alone
InsideCall ==
  /\ acts' = <<>>
  /\ tick' = NoTick
  /\ UNCHANGED <<cfg, md, connected, teardowns, signalled, runFirst, lastUpd,
                 lastLevel, fresh>>

\* the iteration from get_current_frame up to the first assignment of
\* start_clip, the message of the short branch or the sleep of stop_clip;
\* an iteration that calls neither runs to its end
IterateBegin ==
  /\ pc = "loop"
  /\ app.running
  /\ \E d \in 1..MaxStep, frame \in Frames :
       LET t == now + d
           a == analyze_frame(md, frame, t, cfg)
           w == monitor_iteration([World EXCEPT !.now = t], frame, FALSE, cfg)
           starts == \E i \in DOMAIN w.acts :
                       w.acts[i].op = "start" /\ w.acts[i].ret.kind = "path"
           stops == \E i \in DOMAIN w.acts :
                      w.acts[i].op = "stop" /\ w.acts[i].pre.is_recording
       IN /\ t + FinalizeWait <= MaxTime
          /\ IF ~starts /\ ~stops
               THEN Iterate(t, frame, FALSE)
               ELSE /\ md' = w.md
                    /\ now' = t
                    /\ cm' = IF starts
                               THEN [cm EXCEPT !.current_clip_path = Timestamp(t),
                                               !.recording_start_time = t]
                               ELSE cm
                    /\ pc' = IF starts THEN "start_clip_path"
                             ELSE IF t - cm.recording_start_time < cfg.min_duration
                               THEN "discard_printed"
                             ELSE "finalizing"
                    /\ reported' = IF starts THEN reported
                                   ELSE IF pc' = "discard_printed" THEN TRUE
                                   ELSE reported
                    /\ rereported' = IF pc' = "discard_printed"
                                       THEN rereported \/ reported
                                       ELSE rereported
                    /\ acts' = <<>>
                    /\ tick' = [kind |-> "frame", level |-> a.level,
                                was |-> app.is_recording, active |-> cm.is_recording]
                    /\ lastUpd' = IF a.updated THEN t ELSE lastUpd
                    /\ lastLevel' = IF a.updated THEN a.combined ELSE lastLevel
                    /\ fresh' = IF a.updated THEN "fed" ELSE fresh
                    /\ runFirst' = IF ~a.updated THEN runFirst
                                   ELSE IF a.combined >= cfg.low THEN None
                                   ELSE IF runFirst = None THEN t ELSE runFirst
                    /\ UNCHANGED <<files, app, connected, teardowns, issued,
                                   handle, collided>>
  /\ UNCHANGED <<cfg, signalled>>

\* self.is_recording = True in start_clip
StartClipActivates ==
  /\ pc = "start_clip_path"
  /\ cm' = [cm EXCEPT !.is_recording = TRUE]
  /\ pc' = "start_clip_done"
  /\ InsideCall
  /\ UNCHANGED <<now, files, app, issued, handle, collided, reported, rereported>>

\* start_clip returns the path and _start_recording sets the driver's flag
StartClipReturns ==
  /\ pc = "start_clip_done"
  /\ app' = [app EXCEPT !.is_recording = TRUE]
  /\ issued' = issued \cup {cm.current_clip_path}
  /\ handle' = cm.current_clip_path
  /\ collided' = (collided \/ cm.current_clip_path \in issued)
  /\ reported' = FALSE
  /\ pc' = "loop"
  /\ InsideCall
  /\ UNCHANGED <<now, cm, files, rereported>>

\* current_clip_path.unlink() if the artifact exists
DiscardUnlinks ==
  /\ pc = "discard_printed"
  /\ files' = files \ {cm.current_clip_path}
  /\ pc' = "discard_unlinked"
  /\ InsideCall
  /\ UNCHANGED <<now, cm, app, issued, handle, collided, reported, rereported>>

\* the first assignment of _reset_recording on the discard path
DiscardResets ==
  /\ pc = "discard_unlinked"
  /\ cm' = [cm EXCEPT !.current_clip_path = None]
  /\ pc' = "discard_resetting"
  /\ InsideCall
  /\ UNCHANGED <<now, files, app, issued, handle, collided, reported, rereported>>

\* the sleep ends, clip_info is built and _reset_recording makes its first
\* assignment
FinalizeSleeps ==
  /\ pc = "finalizing"
  /\ now' = now + FinalizeWait
  /\ cm' = [cm EXCEPT !.current_clip_path = None]
  /\ pc' = "commit_resetting"
  /\ InsideCall
  /\ UNCHANGED <<files, app, issued, handle, collided, reported, rereported>>

\* the rest of _reset_recording; stop_clip returns None or the record
ResetCompletes ==
  /\ pc \in {"discard_resetting", "commit_resetting"}
  /\ cm' = _reset_recording(cm)
  /\ reported' = IF pc = "commit_resetting" THEN TRUE ELSE reported
  /\ rereported' = IF pc = "commit_resetting" THEN rereported \/ reported
                   ELSE rereported
  /\ pc' = "stop_clip_done"
  /\ InsideCall
  /\ UNCHANGED <<now, files, app, issued, handle, collided>>

\* self.is_recording = False in _stop_recording; the rest of the iteration
\* finds the manager Idle
StopClipReturns ==
  /\ pc = "stop_clip_done"
  /\ app' = [app EXCEPT !.is_recording = FALSE]
  /\ pc' = "loop"
  /\ InsideCall
  /\ UNCHANGED <<now, cm, files, issued, handle, collided, reported, rereported>>

\* SIGINT / SIGTERM wherever the iteration stands; time passes only between
\* iterations and in the sleep
SignalAt ==
  /\ pc \in InIteration
  /\ \E d \in 0..MaxStep :
       /\ d > 0 => pc \in {"loop", "finalizing"}
       /\ pc = "finalizing" => d <= FinalizeWait
       /\ now + d + FinalizeWait <= MaxTime
       /\ Commit(_signal_handler([World EXCEPT !.now = now + d], FALSE, cfg))
  /\ pc' = "finally"
  /\ signalled' = TRUE
  /\ tick' = NoTick
  /\ UNCHANGED <<cfg, runFirst, lastUpd, lastLevel, fresh>>

NextSig ==
  \/ IterateBegin \/ StartClipActivates \/ StartClipReturns
  \/ DiscardUnlinks \/ DiscardResets \/ FinalizeSleeps \/ ResetCompletes
  \/ StopClipReturns \/ SignalAt \/ Finally \/ RecorderWrites

SpecSig == Init /\ [][NextSig]_vars

----------------------------------------------------------------------------
(* Properties *)

Stops == { i \in DOMAIN acts : acts[i].op = "stop" /\ acts[i].pre.is_recording }
Starts == { i \in DOMAIN acts : acts[i].op = "start" }
Elapsed(e) == e.at - e.pre.recording_start_time

\* C1: is_settled() is true only if the most recent settle-timer updates form
\* an unbroken run of levels below low_threshold whose first and last update
\* are at least settle_duration apart; after an update with a level at or
\* above low_threshold the timer is cleared and settled is false.
C1_SettledOnlyAfterQuietRun ==
  /\ is_settled(md) =>
       (runFirst # None /\ lastUpd - runFirst >= cfg.settle_duration)
  /\ (lastLevel # None /\ lastLevel >= cfg.low) =>
       (md.settle_start_time = None /\ ~is_settled(md))

\* settled with a positive settle_duration during a session, that is after a
\* level at or above high_threshold broke an earlier quiet run
C1_Witness ==
  is_settled(md) /\ cfg.settle_duration > 0 /\ app.is_recording /\ runFirst > 1

\* C2: start_clip on an Active manager returns None and leaves
\* current_clip_path, recording_start_time and is_recording as they were.
C2_StartWhileActiveIsNoOp ==
  \A i \in Starts :
    acts[i].pre.is_recording =>
      /\ acts[i].ret.kind = "none"
      /\ acts[i].post = acts[i].pre
      /\ cm = acts[i].pre

\* start_clip called on an Active manager at a later time than the session's start
C2_Witness ==
  \E i \in Starts :
    /\ acts[i].pre.is_recording
    /\ acts[i].at > acts[i].pre.recording_start_time
    /\ Timestamp(acts[i].at) # acts[i].pre.current_clip_path

\* C3: stop_clip on an Active session with elapsed < min_duration deletes the
\* artifact at the session's path, returns no clip record and leaves the
\* manager Idle.
C3_ShortSessionDiscarded ==
  \A i \in Stops :
    Elapsed(acts[i]) < cfg.min_duration =>
      /\ ~acts[i].left
      /\ acts[i].ret.kind = "none"
      /\ ~acts[i].post.is_recording
      /\ ~cm.is_recording

\* C4: stop_clip on an Active session with elapsed >= min_duration returns a
\* clip record whose duration is now - start_time and whose path is the path
\* the matching start_clip returned, and leaves the manager Idle.
C4_LongSessionCommitted ==
  \A i \in Stops :
    Elapsed(acts[i]) >= cfg.min_duration =>
      /\ acts[i].ret.kind = "clip"
      /\ acts[i].ret.duration = Elapsed(acts[i])
      /\ acts[i].ret.path = handle
      /\ ~acts[i].post.is_recording
      /\ ~cm.is_recording

\* a stop at the boundary elapsed = min_duration > 0
C4_Witness ==
  \E i \in Stops :
    /\ Elapsed(acts[i]) = cfg.min_duration
    /\ cfg.min_duration > 0
    /\ acts[i].ret.kind = "clip"

\* C5 as claimed: at the end of every driver loop iteration there is no Active
\* session with now - start_time >= max_duration.
C5_NoOverlongSessionAfterAnyIteration ==
  (pc = "loop" /\ tick.kind # "none") =>
    ~(cm.is_recording /\ now - cm.recording_start_time >= cfg.max_duration)

\* C5 amended: at the end of every driver loop iteration in which the frame
\* source supplied a frame there is no Active session with
\* now - start_time >= max_duration, whatever the motion level.
C5_NoOverlongSessionAfterFrame ==
  tick.kind = "frame" =>
    ~(cm.is_recording /\ now - cm.recording_start_time >= cfg.max_duration)

\* a session force-stopped at max_duration on a tick with motion at or above
\* low_threshold
C5_Witness ==
  /\ tick.kind = "frame"
  /\ tick.level >= cfg.low
  /\ \E i \in Stops : Elapsed(acts[i]) >= cfg.max_duration

\* C6: should_stop_recording returns true if and only if a session is Active
\* and now - start_time >= max_duration, and it changes no state.
C6_ShouldStopIffOverMax ==
  \A i \in DOMAIN acts :
    acts[i].op = "should_stop" =>
      /\ (acts[i].ret.kind = "true") <=>
           (acts[i].pre.is_recording /\ Elapsed(acts[i]) >= cfg.max_duration)
      /\ cm = acts[i].pre

\* should_stop_recording answered true at the boundary elapsed = max_duration
C6_Witness ==
  \E i \in DOMAIN acts :
    /\ acts[i].op = "should_stop"
    /\ acts[i].ret.kind = "true"
    /\ Elapsed(acts[i]) = cfg.max_duration

\* C7: when the delete of the artifact fails on the discard path of stop_clip,
\* the session state is still cleared (manager and driver Idle), the outcome
\* is a discard with no record, and the driver loop goes on.
C7_DeleteFailureNotFatal ==
  \A i \in Stops :
    acts[i].ret.unlinkFailed =>
      /\ acts[i].ret.kind = "none"
      /\ ~cm.is_recording
      /\ ~app.is_recording
      /\ (tick.kind = "frame" => pc = "loop")

\* C8: on a shutdown request the teardown runs exactly once; an Active session
\* is stopped before the frame source is released, and after shutdown no
\* session is Active and the frame source is disconnected.
C8_GracefulTeardownOnce ==
  /\ teardowns <= 1
  /\ \A i \in DOMAIN acts :
       acts[i].op = "disconnect" => ~acts[i].pre.is_recording
  /\ (signalled /\ pc = "exited") =>
       (teardowns = 1 /\ ~cm.is_recording /\ ~app.is_recording /\ ~connected)

\* C9: no two sessions of a run are given the same path.
C9_PathsUnique == ~collided

\* C10: the driver starts a session on a tick if and only if it is Idle at
\* that tick and the tick's motion level is >= high_threshold.
C10_StartIffIdleAndHigh ==
  /\ tick.kind = "frame" =>
       ((\E i \in Starts : acts[i].ret.kind = "path") <=>
          (~tick.active /\ tick.level >= cfg.high))
  /\ tick.kind = "idle" => Starts = {}

\* a session started by a level exactly at high_threshold
C10_Witness ==
  /\ tick.kind = "frame"
  /\ tick.level = cfg.high
  /\ \E i \in Starts : acts[i].ret.kind = "path"

\* C11: while a session is Active, a stop that is not the force stop at
\* max_duration happens only on a tick whose level is < low_threshold and on
\* which is_settled() is true; on an Active tick with level >= low_threshold
\* the session stays Active unless max_duration force-stops it, and the
\* settle timer is cleared with settled = false.
C11_MotionStopOnlyWhenSettled ==
  tick.kind = "frame" =>
    /\ \A i \in Stops :
         Elapsed(acts[i]) < cfg.max_duration =>
           (tick.level < cfg.low /\ is_settled(md))
    /\ (tick.active /\ tick.level >= cfg.low) =>
         /\ cm.is_recording \/ \E i \in Stops : Elapsed(acts[i]) >= cfg.max_duration
         /\ md.settle_start_time = None
         /\ ~is_settled(md)

\* a session stopped by the motion branch, before max_duration, after a quiet
\* run of a positive settle_duration
C11_Witness ==
  /\ tick.kind = "frame"
  /\ cfg.settle_duration > 0
  /\ \E i \in Stops : Elapsed(acts[i]) < cfg.max_duration /\ tick.level < cfg.low

\* C12 as claimed: in scenario A the session starts at tick 3, is Active
\* while the low run has accumulated less than 2.0 s, and is stopped once 20
\* ticks below low_threshold have been fed (tick 25).
C12_ScenarioA_StoppedAfter20LowTicks ==
  tick.kind = "frame" =>
    /\ now < 3 => (~cm.is_recording /\ Starts = {})
    /\ now = 3 => \E i \in Starts : acts[i].ret.kind = "path"
    /\ (now >= 3 /\ now < ScenarioTicks) => (cm.is_recording /\ Stops = {})
    /\ (now >= ScenarioTicks /\ tick.active) => Stops # {}

\* C12 amended: in scenario A the session starts at tick 3 and is Active, with
\* no stop, through tick 25, where the 20 ticks below low_threshold span only
\* 1.9 s; the settle branch calls stop_clip on tick 26, the 21st tick below
\* low_threshold, where the run spans 2.0 s.
C12_ScenarioA_StoppedAt21stLowTick ==
  tick.kind = "frame" =>
    /\ now < 3 => (~cm.is_recording /\ Starts = {})
    /\ now = 3 => \E i \in Starts : acts[i].ret.kind = "path"
    /\ (now >= 3 /\ now <= ScenarioTicks) =>
         (cm.is_recording /\ Stops = {} /\ ~is_settled(md))
    /\ (now > ScenarioTicks /\ tick.active) =>
         (Stops # {} /\ is_settled(md) /\ lastUpd - runFirst = cfg.settle_duration)

\* the stop of scenario A: on tick 26, of the session started on tick 3
C12_Witness ==
  /\ cfg \in ScenarioConfigs
  /\ tick.kind = "frame"
  /\ \E i \in Stops :
       /\ acts[i].at = ScenarioTicks + 1
       /\ acts[i].pre.recording_start_time = 3

\* C13: whenever is_settled_state is true, settle_start_time is set and
\* now - settle_start_time >= settle_duration; analyze_frame's update,
\* reset_settle_timer and reset all keep it so.
C13_SettledImpliesTimerRanLongEnough ==
  md.is_settled_state =>
    /\ md.settle_start_time # None
    /\ now - md.settle_start_time >= cfg.settle_duration

\* settled after a positive settle_duration, by a timer started after time 0
C13_Witness ==
  /\ md.is_settled_state
  /\ cfg.settle_duration > 0
  /\ md.settle_start_time > 0
  /\ fresh = "fed"

\* the calls of the last step on the detector or the configuration
MdCalls(op) == { i \in DOMAIN acts : acts[i].op = op }

\* C16: analyze_frame with a null or empty frame returns 0.0 and leaves the
\* baseline and the settle state (settle_start_time, is_settled_state) as
\* they were.
C16_EmptyFrameChangesNothing ==
  \A i \in MdCalls("analyze") :
    acts[i].frame \in {NoFrame, EmptyFrame} =>
      /\ acts[i].level = 0
      /\ acts[i].post = acts[i].pre
      /\ md = acts[i].pre

\* an empty frame given to a detector that has a baseline and no timer running
C16_Witness ==
  \E i \in MdCalls("analyze") :
    /\ acts[i].frame = EmptyFrame
    /\ acts[i].pre.has_prev
    /\ acts[i].pre.settle_start_time = None

\* C18: after construction and after reset(), the first analyze_frame on a
\* non-empty frame returns 0.0 whatever the frame and stores the frame as the
\* baseline; reset() leaves the timer cleared and settled = false.
C18_FirstFrameAfterResetIsQuiet ==
  /\ \A i \in MdCalls("analyze") :
       (acts[i].frame \in Levels /\ acts[i].was # "fed") =>
         (acts[i].level = 0 /\ md.has_prev)
  /\ \A i \in MdCalls("reset") :
       (md.settle_start_time = None /\ ~md.is_settled_state)

\* a frame with motion 0.12 against the stale baseline, as the first frame after reset()
C18_Witness ==
  \E i \in MdCalls("analyze") :
    /\ acts[i].frame = 12
    /\ acts[i].was = "reset"
    /\ acts[i].level = 0

Invalid(c) ==
  \/ c.motion_low_threshold >= c.motion_high_threshold
  \/ c.motion_low_threshold <= 0
  \/ c.motion_high_threshold > 100
  \/ c.min_clip_duration >= c.max_clip_duration
  \/ c.motion_sample_rate <= 0

\* C14: validate reports at least one error for every configuration with
\* low >= high, low <= 0, high > 1, min_duration >= max_duration or
\* sample_rate <= 0, and none for a configuration that has none of these
\* and frame_skip >= 1.
C14_ValidateRejectsExactlyInvalid ==
  \A i \in MdCalls("validate") :
    /\ Invalid(acts[i].conf) => acts[i].errors # <<>>
    /\ (~Invalid(acts[i].conf) /\ acts[i].conf.frame_skip >= 1) => acts[i].errors = <<>>

\* the boundary low_threshold = high_threshold, everything else valid, rejected
C14_Witness ==
  \E i \in MdCalls("validate") :
    /\ acts[i].conf.motion_low_threshold = acts[i].conf.motion_high_threshold
    /\ acts[i].conf.motion_low_threshold > 0
    /\ acts[i].conf.motion_high_threshold <= 100
    /\ acts[i].conf.min_clip_duration < acts[i].conf.max_clip_duration
    /\ acts[i].conf.motion_sample_rate > 0
    /\ acts[i].conf.frame_skip >= 1
    /\ Len(acts[i].errors) = 1

\* C15: stop_clip with no Active session returns None and changes nothing
\* (the manager stays Idle, no artifact is deleted, no record is produced);
\* _stop_recording while the driver is not recording does nothing.
C15_StopWhileIdleIsNoOp ==
  [][ /\ \A i \in DOMAIN acts' :
           (acts'[i].op = "stop" /\ ~acts'[i].pre.is_recording) =>
             /\ acts'[i].ret = NoRet
             /\ cm' = cm
             /\ ~cm'.is_recording
             /\ files' = files
      /\ (tick'.kind = "_stop_recording" /\ ~tick'.was) =>
           (acts' = <<>> /\ cm' = cm /\ files' = files /\ app' = app)
    ]_vars

\* stop_clip on an Idle manager while the artifact of an earlier session exists
C15_Witness ==
  \E i \in DOMAIN acts :
    /\ acts[i].op = "stop"
    /\ ~acts[i].pre.is_recording
    /\ files # {}

\* C17: a loop iteration without a frame emits no Start, Stop or Discard and
\* leaves the detector (baseline and settle state), the driver flag, the
\* session manager and the artifacts unchanged.
C17_IdleTickChangesNothing ==
  [][ tick'.kind = "idle" =>
        /\ acts' = <<>>
        /\ md' = md
        /\ cm' = cm
        /\ app' = app
        /\ files' = files
        /\ pc' = pc
    ]_vars

\* an iteration without a frame during a session that has reached max_duration
C17_Witness ==
  /\ tick.kind = "idle"
  /\ cm.is_recording
  /\ now - cm.recording_start_time >= cfg.max_duration

\* C20: at every tick boundary of the driver loop (no exception unwinding)
\* the driver's is_recording equals the session manager's is_recording.
C20_DriverFlagMatchesManager ==
  pc = "loop" => app.is_recording = cm.is_recording

\* the boundary after an iteration that discarded a short session
C20_Witness ==
  /\ pc = "loop"
  /\ tick.kind = "frame"
  /\ ~app.is_recording
  /\ \E i \in Stops : acts[i].ret.kind = "none"

\* C19: when the shutdown signal handler ran at any point of the driver
\* loop, between any two statements of an iteration, then once shutdown has
\* completed the session manager holds no Active session and no session has
\* been reported (as a record or a discard) more than once.
C19_SignalAnywhereShutsDownCleanly ==
  (signalled /\ pc = "exited") => (~cm.is_recording /\ ~rereported)

\* C21: on the tick on which a session starts the settle timer is cleared
\* and settled is false, however long the stream was quiet before; so every
\* session stopped by the motion-settle branch (a frame below low_threshold
\* with is_settled() true) was Active for at least settle_duration.
C21_StartClearsSettleTimer ==
  tick.kind = "frame" =>
    /\ (\E i \in Starts : acts[i].ret.kind = "path") =>
         (md.settle_start_time = None /\ ~is_settled(md))
    /\ \A i \in Stops :
         (tick.level < cfg.low /\ is_settled(md)) =>
           /\ Elapsed(acts[i]) >= cfg.settle_duration
           /\ md.settle_start_time > acts[i].pre.recording_start_time

\* a session stopped by the settle branch as early as a positive
\* settle_duration allows: the quiet run began one clock unit after the start
C21_Witness ==
  /\ tick.kind = "frame"
  /\ cfg.settle_duration > 0
  /\ tick.level < cfg.low
  /\ is_settled(md)
  /\ \E i \in Stops :
       /\ md.settle_start_time = acts[i].pre.recording_start_time + 1
       /\ Elapsed(acts[i]) = cfg.settle_duration + 1

\* C22: a driver tick emits at most one session action: never a start and a
\* stop on the same tick, and when the settle condition and the max-duration
\* condition both hold on a tick, stop_clip takes effect exactly once, with
\* one record and a manager and a driver that are Idle afterwards.
C22_AtMostOneActionPerTick ==
  tick.kind \in {"frame", "idle"} =>
    /\ Cardinality({ i \in Starts : acts[i].ret.kind = "path" } \cup Stops) <= 1
    /\ \A i \in Stops :
         (tick.level < cfg.low /\ is_settled(md)
            /\ Elapsed(acts[i]) >= cfg.max_duration) =>
           /\ Stops = {i}
           /\ acts[i].ret.kind = "clip"
           /\ ~cm.is_recording
           /\ ~app.is_recording

\* a tick on which the session was settled and had reached max_duration
C22_Witness ==
  /\ tick.kind = "frame"
  /\ tick.level < cfg.low
  /\ is_settled(md)
  /\ \E i \in Stops :
       /\ Elapsed(acts[i]) >= cfg.max_duration
       /\ acts[i].ret.kind = "clip"

====
